---- MODULE Spec2Model ----
(***************************************************************************)
(* Model of the schema combinator library of serialize/Schema.ts           *)
(* (namespace Schemas): encode / decode / validate of every combinator,    *)
(* evaluated over a tree of JavaScript values.                             *)
(*                                                                         *)
(* A JavaScript value is a pair <<tag, payload>>.  A call returns a record *)
(* [v |-> value or thrown error, w |-> world], where the world holds the   *)
(* only mutable state the library can touch (the lastIndex of a RegExp     *)
(* carrying the global flag) together with the union branches the call     *)
(* took.                                                                   *)
(***************************************************************************)
EXTENDS Integers, Sequences, FiniteSets, TLC

(***************************************************************************)
(* Bounds of the explored universe.                                        *)
(***************************************************************************)
MaxLen == 2

(***************************************************************************)
(* JavaScript values.                                                      *)
(***************************************************************************)
Undefined == <<"undefined", 0>>
Null == <<"null", 0>>
NaN == <<"nan", 0>>
Bool(b) == <<"boolean", b>>
Num(n) == <<"num", n>>
\* the non-integer number n + 0.5
Frac(n) == <<"frac", n>>
Str(s) == <<"string", s>>
\* new String(s): an object that wraps the string s
StringObject(s) == <<"String", s>>
\* new Number(n): an object that wraps the number n
NumberObject(n) == <<"Number", n>>
Arr(elems) == <<"array", elems>>
\* own enumerable properties in insertion order: <<key, value>> pairs
Obj(props) == <<"object", props>>
\* an ES6 Map: <<key, value>> pairs in insertion order
MapOf(entries) == <<"map", entries>>
\* a class instance: constructor name and its data fields
Inst(cls, props) == <<"instance", <<cls, props>>>>
\* a thrown Error; the payload tells which throw statement raised it
Throw(msg) == <<"throw", msg>>

TypeError == Throw("TypeError")
Unreachable == Throw("This code should be unreachable")
SerializationError == Throw("Serialization error")

Tag(v) == v[1]
IsThrow(v) == Tag(v) = "throw"
IsArray(v) == Tag(v) = "array"
IsNumber(v) == Tag(v) \in {"num", "frac", "nan"}
IsNullish(v) == Tag(v) \in {"undefined", "null"}
True == Bool(TRUE)
False == Bool(FALSE)

\* the typeof operator
TypeOf(v) ==
    CASE IsNumber(v) -> "number"
      [] Tag(v) \in {"string", "boolean", "undefined", "function"} -> Tag(v)
      [] OTHER -> "object"

\* a === b on primitives (the reference lists of indexing and mapping and
\* the literals hold primitives only)
StrictEquals(a, b) == a = b /\ Tag(a) # "nan"

\* key equality of an ES6 Map (SameValueZero): NaN equals NaN; containers
\* are compared by reference and the value tree has no aliasing, so two
\* containers are never the same key
IsPrimitive(v) ==
    Tag(v) \notin {"array", "object", "map", "instance", "String", "Number"}
SameValueZero(a, b) == IsPrimitive(a) /\ a = b

Digits == <<"0", "1", "2", "3", "4", "5", "6", "7", "8", "9">>
RECURSIVE NatToString(_)
NatToString(n) ==
    IF n < 10 THEN Digits[n + 1] ELSE NatToString(n \div 10) \o Digits[(n % 10) + 1]
\* the property name of array index i (0-based)
IndexKey(i) == NatToString(i)

RECURSIVE StringOf(_), Join(_, _)
\* elems.join(",") from element i on: null and undefined give ""
Join(elems, i) ==
    IF i > Len(elems) THEN ""
    ELSE (IF IsNullish(elems[i]) THEN "" ELSE StringOf(elems[i]))
            \o (IF i < Len(elems) THEN "," ELSE "") \o Join(elems, i + 1)

\* the string a value is coerced to (String(v), the key of x[v])
StringOf(v) ==
    CASE Tag(v) \in {"string", "String"} -> v[2]
      [] Tag(v) \in {"num", "Number"} ->
            IF v[2] < 0 THEN "-" \o NatToString(0 - v[2]) ELSE NatToString(v[2])
      [] Tag(v) = "frac" ->
            IF v[2] < 0 THEN "-" \o NatToString(0 - v[2] - 1) \o ".5"
            ELSE NatToString(v[2]) \o ".5"
      [] Tag(v) = "nan" -> "NaN"
      [] Tag(v) = "boolean" -> IF v[2] THEN "true" ELSE "false"
      [] Tag(v) \in {"undefined", "null"} -> Tag(v)
      [] Tag(v) = "array" -> Join(v[2], 1)
      [] Tag(v) = "map" -> "[object Map]"
      [] OTHER -> "[object Object]"

\* the number a value is coerced to (Number(v)); of the strings, the empty
\* string and the one-digit numerals are numeric
NumberOf(v) ==
    CASE IsNumber(v) -> v
      [] Tag(v) = "Number" -> Num(v[2])
      [] Tag(v) = "null" -> Num(0)
      [] Tag(v) = "boolean" -> IF v[2] THEN Num(1) ELSE Num(0)
      [] Tag(v) \in {"string", "String", "array"} ->
            LET s == StringOf(v)
            IN  IF s = "" THEN Num(0)
                ELSE IF \E i \in 1..Len(Digits) : Digits[i] = s
                THEN Num((CHOOSE i \in 1..Len(Digits) : Digits[i] = s) - 1)
                ELSE NaN
      [] OTHER -> NaN

\* twice the numeric value of a number that is not NaN
Twice(v) == IF Tag(v) = "frac" THEN 2 * v[2] + 1 ELSE 2 * v[2]

\* a < b, a >= b: the operands are coerced to numbers and every comparison
\* with NaN is false
NumLess(a, b) ==
    LET x == NumberOf(a)
        y == NumberOf(b)
    IN  Tag(x) # "nan" /\ Tag(y) # "nan" /\ Twice(x) < Twice(y)
NumGeq(a, b) ==
    LET x == NumberOf(a)
        y == NumberOf(b)
    IN  Tag(x) # "nan" /\ Tag(y) # "nan" /\ Twice(x) >= Twice(y)

\* own properties of a value as <<key, value>> pairs, as for-in visits them
Props(v) ==
    CASE Tag(v) = "object" -> v[2]
      [] Tag(v) = "instance" -> v[2][2]
      [] Tag(v) = "array" -> [i \in 1..Len(v[2]) |-> <<IndexKey(i - 1), v[2][i]>>]
      [] Tag(v) \in {"string", "String"} ->
            [i \in 1..Len(v[2]) |-> <<IndexKey(i - 1), <<"string", SubSeq(v[2], i, i)>>>>]
      [] OTHER -> <<>>

HasKey(props, k) == \E i \in 1..Len(props) : props[i][1] = k
Lookup(props, k) == props[CHOOSE i \in 1..Len(props) : props[i][1] = k][2]
KeySet(props) == {props[i][1] : i \in 1..Len(props)}

\* the property read x[key]
Get(x, key) ==
    IF IsNullish(x) THEN TypeError
    ELSE IF HasKey(Props(x), key) THEN Lookup(Props(x), key)
    ELSE IF key = "length" /\ Tag(x) \in {"array", "string", "String"} THEN Num(Len(x[2]))
    ELSE Undefined

\* the assignment acc[key] = val on a property list
SetProp(props, key, val) ==
    IF HasKey(props, key)
    THEN [i \in 1..Len(props) |-> IF props[i][1] = key THEN <<key, val>> ELSE props[i]]
    ELSE Append(props, <<key, val>>)

\* a set that keeps the value an existing key already has
MapSet_keepsFirst(entries, key, val) ==
    IF \E i \in 1..Len(entries) : SameValueZero(entries[i][1], key)
    THEN entries
    ELSE Append(entries, <<key, val>>)

\* Map.prototype.set: an existing key keeps its position and gets the new
\* value, a new key is appended
MapSet(entries, key, val) ==
    IF \E i \in 1..Len(entries) : SameValueZero(entries[i][1], key)
    THEN [i \in 1..Len(entries) |->
            IF SameValueZero(entries[i][1], key) THEN <<entries[i][1], val>> ELSE entries[i]]
    ELSE Append(entries, <<key, val>>)

\* the values a for-of loop visits, or a TypeError for a non-iterable
Iterate(x) ==
    CASE Tag(x) = "array" -> Arr(x[2])
      [] Tag(x) \in {"string", "String"} -> Arr([i \in 1..Len(x[2]) |-> Str(SubSeq(x[2], i, i))])
      [] Tag(x) = "map" -> Arr([i \in 1..Len(x[2]) |-> Arr(x[2][i])])
      [] OTHER -> TypeError

\* x.entries() as a list of <<key, value>> pairs, or a TypeError
Entries(x) ==
    CASE Tag(x) = "map" -> Arr(x[2])
      [] Tag(x) = "array" -> Arr([i \in 1..Len(x[2]) |-> <<Num(i - 1), x[2][i]>>])
      [] OTHER -> TypeError

(***************************************************************************)
(* The world: RegExp.prototype.lastIndex of the regular expression that    *)
(* carries the global flag, the sides the unions of the running call have  *)
(* taken so far, and the functions and producers the running call has      *)
(* called so far, in the order of the calls, and the variables whose       *)
(* object the running call has written to (acc[k] = ..., acc.push(...),    *)
(* acc.set(...)), in the order of the writes.                              *)
(***************************************************************************)
World(index, branches) ==
    [lastIndex |-> index, branches |-> branches, calls |-> <<>>, writes |-> <<>>]
Ret(v, w) == [v |-> v, w |-> w]
Took(w, side) == [w EXCEPT !.branches = Append(@, side)]
Called(w, fn) == [w EXCEPT !.calls = Append(@, fn)]
Wrote(w, variable) == [w EXCEPT !.writes = Append(@, variable)]

(***************************************************************************)
(* Regular expressions.  MatchEnd is the end of the match that starts at   *)
(* the 0-based position i of s, or -1 when none starts there.              *)
(***************************************************************************)
RegExp(source, global) == [source |-> source, global |-> global]

MatchEnd(regex, s, i) ==
    CASE regex.source = "a" ->
            IF i < Len(s) /\ SubSeq(s, i + 1, i + 1) = "a" THEN i + 1 ELSE -1
      [] regex.source = "^a+$" ->
            IF i = 0 /\ Len(s) >= 1 /\ \A j \in 1..Len(s) : SubSeq(s, j, j) = "a"
            THEN Len(s) ELSE -1

\* RegExp.prototype.test: a global expression starts the search at
\* lastIndex and leaves the end of the match (or 0 after a failure) there
RegExpTest(regex, s, w) ==
    LET start == IF regex.global THEN w.lastIndex ELSE 0
        hits == {i \in start..Len(s) : MatchEnd(regex, s, i) >= 0}
        first == CHOOSE i \in hits : \A j \in hits : i <= j
    IN  IF hits = {}
        THEN Ret(False, IF regex.global THEN [w EXCEPT !.lastIndex = 0] ELSE w)
        ELSE Ret(True, IF regex.global
                       THEN [w EXCEPT !.lastIndex = MatchEnd(regex, s, first)]
                       ELSE w)

(***************************************************************************)
(* Schemas are the terms the combinators build.  A combinator that the     *)
(* source defines through other combinators is defined the same way here.  *)
(* Functions handed to a combinator are records [fn |-> name, ...],        *)
(* applied by Apply.                                                       *)
(***************************************************************************)
id == [fn |-> "id"]

primitive(validate) == [kind |-> "primitive", validate |-> validate]

literal(value) == [kind |-> "literal", value |-> value]

contra(schema, encode, decode) ==
    [kind |-> "contra", schema |-> schema, encode |-> encode, decode |-> decode]

co(schema, encode, decode, validate) ==
    [kind |-> "co", schema |-> schema, encode |-> encode, decode |-> decode,
     validate |-> validate]

\* the producer is named; Producer below gives the schema it returns
lazy(schema) == [kind |-> "lazy", schema |-> schema]

\* injecting that uses project and inject the way contra uses encode and decode
injecting_asContra(baseSchema, project, inject) == contra(baseSchema, project, inject)

\* project and inject are carried by the schema; its operations are the base's
injecting(baseSchema, project, inject) ==
    [kind |-> "injecting", baseSchema |-> baseSchema, project |-> project,
     inject |-> inject]

anAny == primitive([fn |-> "isAny"])
aString == primitive([fn |-> "isString"])
aNumber == primitive([fn |-> "isNumber"])
aBoolean == primitive([fn |-> "isBoolean"])
\* aNull with the test of anUndefined
aNull_asUndefined == primitive([fn |-> "isUndefined"])
aNull == primitive([fn |-> "isNull"])
anUndefined == primitive([fn |-> "isUndefined"])

arrayOf(elementsSchema) == [kind |-> "arrayOf", elementsSchema |-> elementsSchema]

nonEmptyArrayOf(elementsSchema) ==
    [kind |-> "nonEmptyArrayOf", elementsSchema |-> elementsSchema]

\* elementSchemas is the sequence of the element schemas
tupleOf(elementSchemas) == [kind |-> "tupleOf", elementSchemas |-> elementSchemas]

object(values) == [kind |-> "object", values |-> values]

map(keys, values) == [kind |-> "map", keys |-> keys, values |-> values]

\* structure is the sequence of <<key, schema>> in declaration order
recordOf(structure) == [kind |-> "recordOf", structure |-> structure]

\* classOf that leaves the decoded record as it is
classOf_plain(structure, reconstruct) == recordOf(structure)

classOf(structure, reconstruct) == contra(recordOf(structure), id, reconstruct)

unionOf(isLeft, isRight, left, right) ==
    [kind |-> "unionOf", isLeft |-> isLeft, isRight |-> isRight,
     left |-> left, right |-> right]

union(left, right) ==
    unionOf([fn |-> "validate", schema |-> left],
            [fn |-> "notValidate", schema |-> left],
            left, right)

\* optional that does not admit undefined
optional_required(schema) == union(schema, schema)

optional(schema) == union(anUndefined, schema)

constrain(schema, predicate) ==
    [kind |-> "constrain", schema |-> schema, predicate |-> predicate]

asserting(schema, predicate) == constrain(schema, predicate)

\* matching that anchors the expression to the whole string
matching_anchored(regex) ==
    constrain(aString, [fn |-> "regexTest", regex |-> RegExp("^a+$", regex.global)])
matching(regex) == constrain(aString, [fn |-> "regexTest", regex |-> regex])

\* values is the reference array
indexing(values) ==
    contra(constrain(aNumber, [fn |-> "inRange", values |-> values]),
           [fn |-> "indexOf", values |-> values],
           [fn |-> "at", values |-> values])

\* values is the reference record, as <<key, value>> pairs
mapping(values) ==
    contra(constrain(aString, [fn |-> "in", values |-> values]),
           [fn |-> "keyOf", values |-> values],
           [fn |-> "lookup", values |-> values])

(***************************************************************************)
(* LazySchemas: the combinators that take producers of schemas.  A         *)
(* producer is named, as for lazy; structure pairs each key with one.      *)
(***************************************************************************)
LazySchemas_arrayOf(elementsSchema) ==
    [kind |-> "LazySchemas.arrayOf", elementsSchema |-> elementsSchema]

LazySchemas_nonEmptyArrayOf(elementsSchema) ==
    [kind |-> "LazySchemas.nonEmptyArrayOf", elementsSchema |-> elementsSchema]

LazySchemas_recordOf(structure) ==
    [kind |-> "LazySchemas.recordOf", structure |-> structure]

LazySchemas_classOf(structure, reconstruct) ==
    contra(LazySchemas_recordOf(structure), id, reconstruct)

(***************************************************************************)
(* The schemas the producers of lazy(...) and of LazySchemas return.       *)
(***************************************************************************)
\* producers whose chain schema accepts anything as the next node
Producer_shallow(name) ==
    CASE name = "chain" ->
            optional(recordOf(<< <<"value", aNumber>>, <<"next", anAny>> >>))
      [] name = "numbers" -> arrayOf(aNumber)
      [] name = "aNumber" -> aNumber
      [] name = "aString" -> aString

Producer(name) ==
    CASE name = "chain" ->
            optional(recordOf(<< <<"value", aNumber>>, <<"next", lazy("chain")>> >>))
      [] name = "numbers" -> arrayOf(aNumber)
      [] name = "aNumber" -> aNumber
      [] name = "aString" -> aString

(***************************************************************************)
(* encode, decode and validate.                                            *)
(***************************************************************************)
RECURSIVE Run(_, _, _, _)
RECURSIVE MapElements(_, _, _, _, _, _), MapTuple(_, _, _, _, _, _)
RECURSIVE EachValue(_, _, _, _, _, _), EachField(_, _, _, _, _, _)
RECURSIVE EveryElement(_, _, _, _), EverySchema(_, _, _, _)
RECURSIVE EveryValue(_, _, _, _), EveryField(_, _, _, _)
RECURSIVE PushEntries(_, _, _, _, _), SetEntries(_, _, _, _, _)
RECURSIVE LazyEachField(_, _, _, _, _, _), LazyEveryField(_, _, _, _)

\* schema.encode(val), schema.decode(data) and schema.validate(data)
Encode(s, val, w) == Run("encode", s, val, w)
Decode(s, data, w) == Run("decode", s, data, w)
Validate(s, data, w) == Run("validate", s, data, w)
\* f(x)
Apply(f, x, w) == Run("apply", f, x, w)

\* arr.map(x => schema.encode(x)) from element i on, acc holding the results
MapElements(op, schema, elems, i, w, acc) ==
    IF i > Len(elems) THEN Ret(Arr(acc), w)
    ELSE LET r == Run(op, schema, elems[i], w)
         IN  IF IsThrow(r.v) THEN r
             ELSE MapElements(op, schema, elems, i + 1, r.w, Append(acc, r.v))

\* tup.map((x, i) => elementSchemas[i].encode(x)): a position without an
\* element schema calls a method of undefined
MapTuple(op, schemas, elems, i, w, acc) ==
    IF i > Len(elems) THEN Ret(Arr(acc), w)
    ELSE IF i > Len(schemas) THEN Ret(TypeError, w)
    ELSE LET r == Run(op, schemas[i], elems[i], w)
         IN  IF IsThrow(r.v) THEN r
             ELSE MapTuple(op, schemas, elems, i + 1, r.w, Append(acc, r.v))

\* for (const k in val) acc[k] = values.encode(val[k])
EachValue(op, schema, props, i, w, acc) ==
    IF i > Len(props) THEN Ret(Obj(acc), w)
    ELSE LET r == Run(op, schema, props[i][2], w)
         IN  IF IsThrow(r.v) THEN r
             ELSE EachValue(op, schema, props, i + 1, Wrote(r.w, "acc"),
                            SetProp(acc, props[i][1], r.v))

\* for (const key in structure) obj[key] = structure[key].encode(x[key])
EachField(op, structure, x, i, w, acc) ==
    IF i > Len(structure) THEN Ret(Obj(acc), w)
    ELSE LET key == structure[i][1]
             field == Get(x, key)
             r == Run(op, structure[i][2], field, w)
         IN  IF IsThrow(field) THEN Ret(field, w)
             ELSE IF IsThrow(r.v) THEN r
             ELSE EachField(op, structure, x, i + 1,
                            Wrote(r.w, IF op = "encode" THEN "obj" ELSE "res"),
                            SetProp(acc, key, r.v))

\* data.every(x => schema.validate(x)) from element i on
EveryElement(schema, elems, i, w) ==
    IF i > Len(elems) THEN Ret(True, w)
    ELSE LET r == Validate(schema, elems[i], w)
         IN  IF r.v = True THEN EveryElement(schema, elems, i + 1, r.w) ELSE r

\* elementSchemas.every((schema, i) => schema.validate(data[i]))
EverySchema(schemas, elems, i, w) ==
    IF i > Len(schemas) THEN Ret(True, w)
    ELSE LET r == Validate(schemas[i], IF i <= Len(elems) THEN elems[i] ELSE Undefined, w)
         IN  IF r.v = True THEN EverySchema(schemas, elems, i + 1, r.w) ELSE r

\* for (const k in obj) if (!values.validate(obj[k])) return false
EveryValue(schema, props, i, w) ==
    IF i > Len(props) THEN Ret(True, w)
    ELSE LET r == Validate(schema, props[i][2], w)
         IN  IF r.v = True THEN EveryValue(schema, props, i + 1, r.w) ELSE r

\* for (const key in structure) if (!structure[key].validate(obj[key])) return false
EveryField(structure, data, i, w) ==
    IF i > Len(structure) THEN Ret(True, w)
    ELSE LET field == Get(data, structure[i][1])
             r == Validate(structure[i][2], field, w)
         IN  IF IsThrow(field) THEN Ret(field, w)
             ELSE IF r.v = True THEN EveryField(structure, data, i + 1, r.w) ELSE r

\* for (const entry of val.entries())
\*     acc.push([keys.encode(entry[0]), values.encode(entry[1])])
PushEntries(s, entries, i, w, acc) ==
    IF i > Len(entries) THEN Ret(Arr(acc), w)
    ELSE LET k == Encode(s.keys, entries[i][1], w)
             v == Encode(s.values, entries[i][2], k.w)
         IN  IF IsThrow(k.v) THEN k
             ELSE IF IsThrow(v.v) THEN v
             ELSE PushEntries(s, entries, i + 1, Wrote(v.w, "acc"),
                              Append(acc, Arr(<<k.v, v.v>>)))

\* for (const entry of data)
\*     acc.set(keys.decode(entry[0]), values.decode(entry[1]))
SetEntries(s, elems, i, w, acc) ==
    IF i > Len(elems) THEN Ret(MapOf(acc), w)
    ELSE LET key == Get(elems[i], IndexKey(0))
             val == Get(elems[i], IndexKey(1))
             k == Decode(s.keys, key, w)
             v == Decode(s.values, val, k.w)
         IN  IF IsThrow(key) THEN Ret(key, w)
             ELSE IF IsThrow(k.v) THEN k
             ELSE IF IsThrow(v.v) THEN v
             ELSE SetEntries(s, elems, i + 1, Wrote(v.w, "acc"), MapSet(acc, k.v, v.v))

contra_encode(s, x, w) ==
    LET e == Apply(s.encode, x, w)
    IN  IF IsThrow(e.v) THEN e ELSE Encode(s.schema, e.v, e.w)

\* contra that forgets to apply the caller's decode
contra_decode_skipsDecode(s, x, w) == Decode(s.schema, x, w)

contra_decode(s, x, w) ==
    LET d == Decode(s.schema, x, w)
    IN  IF IsThrow(d.v) THEN d ELSE Apply(s.decode, d.v, d.w)

\* contra.validate that also asks the caller's decode for its opinion
contra_validate_consultsDecode(s, data, w) ==
    LET v == Validate(s.schema, data, w)
        d == Apply(s.decode, data, v.w)
    IN  IF v.v = True THEN Ret(Bool(~IsThrow(d.v)), d.w) ELSE v

contra_validate(s, data, w) == Validate(s.schema, data, w)

co_encode(s, x, w) ==
    LET e == Encode(s.schema, x, w)
    IN  IF IsThrow(e.v) THEN e ELSE Apply(s.encode, e.v, e.w)

co_decode(s, x, w) ==
    LET d == Apply(s.decode, x, w)
    IN  IF IsThrow(d.v) THEN d ELSE Decode(s.schema, d.v, d.w)

arrayOf_encode(s, arr, w) ==
    IF ~IsArray(arr) THEN Ret(TypeError, w)
    ELSE MapElements("encode", s.elementsSchema, arr[2], 1, w, <<>>)

arrayOf_decode(s, arr, w) ==
    IF ~IsArray(arr) THEN Ret(TypeError, w)
    ELSE MapElements("decode", s.elementsSchema, arr[2], 1, w, <<>>)

arrayOf_validate(s, data, w) ==
    IF ~IsArray(data) THEN Ret(False, w)
    ELSE EveryElement(s.elementsSchema, data[2], 1, w)

\* nonEmptyArrayOf.validate without the test of the length
nonEmptyArrayOf_validate_anyLength(s, data, w) == arrayOf_validate(s, data, w)

nonEmptyArrayOf_validate(s, data, w) ==
    IF IsArray(data) /\ Len(data[2]) >= 1 THEN arrayOf_validate(s, data, w)
    ELSE Ret(False, w)

tupleOf_encode(s, tup, w) ==
    IF ~IsArray(tup) THEN Ret(TypeError, w)
    ELSE MapTuple("encode", s.elementSchemas, tup[2], 1, w, <<>>)

tupleOf_decode(s, tup, w) ==
    IF ~IsArray(tup) THEN Ret(TypeError, w)
    ELSE MapTuple("decode", s.elementSchemas, tup[2], 1, w, <<>>)

\* tupleOf.validate that accepts arrays longer than the tuple
tupleOf_validate_atLeast(s, data, w) ==
    IF ~IsArray(data) \/ Len(data[2]) < Len(s.elementSchemas) THEN Ret(False, w)
    ELSE EverySchema(s.elementSchemas, data[2], 1, w)

tupleOf_validate(s, data, w) ==
    IF ~IsArray(data) \/ Len(data[2]) # Len(s.elementSchemas) THEN Ret(False, w)
    ELSE EverySchema(s.elementSchemas, data[2], 1, w)

object_encode(s, val, w) == EachValue("encode", s.values, Props(val), 1, w, <<>>)

object_decode(s, data, w) == EachValue("decode", s.values, Props(data), 1, w, <<>>)

object_validate(s, data, w) ==
    IF TypeOf(data) # "object" \/ data = Null THEN Ret(False, w)
    ELSE EveryValue(s.values, Props(data), 1, w)

map_encode(s, val, w) ==
    IF IsThrow(Entries(val)) THEN Ret(Entries(val), w)
    ELSE PushEntries(s, Entries(val)[2], 1, w, <<>>)

map_decode(s, data, w) ==
    IF IsThrow(Iterate(data)) THEN Ret(Iterate(data), w)
    ELSE SetEntries(s, Iterate(data)[2], 1, w, <<>>)

map_validate(s, data, w) ==
    Validate(arrayOf(tupleOf(<<s.keys, s.values>>)), data, w)

recordOf_encode(s, x, w) == EachField("encode", s.structure, x, 1, w, <<>>)

\* recordOf.decode that starts from a copy of the input instead of {}
recordOf_decode_keepsExtras(s, obj, w) ==
    EachField("decode", s.structure, obj, 1, w, IF Tag(obj) = "object" THEN obj[2] ELSE <<>>)

recordOf_decode(s, obj, w) == EachField("decode", s.structure, obj, 1, w, <<>>)

\* recordOf.validate that rejects keys the structure does not declare
recordOf_validate_closed(s, data, w) ==
    IF TypeOf(data) # "object" \/ data = Null THEN Ret(False, w)
    ELSE IF \E k \in KeySet(Props(data)) :
               \A i \in 1..Len(s.structure) : s.structure[i][1] # k
    THEN Ret(False, w)
    ELSE EveryField(s.structure, data, 1, w)

\* recordOf.validate without the guard against non-objects and null
recordOf_validate_unguarded(s, data, w) == EveryField(s.structure, data, 1, w)

recordOf_validate(s, data, w) ==
    IF TypeOf(data) # "object" \/ data = Null THEN Ret(False, w)
    ELSE EveryField(s.structure, data, 1, w)

\* const schema = elementsSchema(); return arr.map(x => schema.encode(x))
LazySchemas_arrayOf_encode(s, arr, w) ==
    arrayOf_encode(arrayOf(Producer(s.elementsSchema)), arr, Called(w, s.elementsSchema))

LazySchemas_arrayOf_decode(s, arr, w) ==
    arrayOf_decode(arrayOf(Producer(s.elementsSchema)), arr, Called(w, s.elementsSchema))

\* the producer is called before the test for an array
LazySchemas_arrayOf_validate(s, data, w) ==
    arrayOf_validate(arrayOf(Producer(s.elementsSchema)), data, Called(w, s.elementsSchema))

LazySchemas_nonEmptyArrayOf_validate(s, data, w) ==
    IF IsArray(data) /\ Len(data[2]) >= 1 THEN LazySchemas_arrayOf_validate(s, data, w)
    ELSE Ret(False, w)

\* for (const key in structure) obj[key] = structure[key]().encode(x[key])
LazyEachField(op, structure, x, i, w, acc) ==
    IF i > Len(structure) THEN Ret(Obj(acc), w)
    ELSE LET key == structure[i][1]
             produced == Called(w, structure[i][2])
             field == Get(x, key)
             r == Run(op, Producer(structure[i][2]), field, produced)
         IN  IF IsThrow(field) THEN Ret(field, produced)
             ELSE IF IsThrow(r.v) THEN r
             ELSE LazyEachField(op, structure, x, i + 1,
                                Wrote(r.w, IF op = "encode" THEN "obj" ELSE "res"),
                                SetProp(acc, key, r.v))

\* for (const key in structure)
\*     if (!structure[key]().validate(obj[key])) return false
LazyEveryField(structure, data, i, w) ==
    IF i > Len(structure) THEN Ret(True, w)
    ELSE LET produced == Called(w, structure[i][2])
             field == Get(data, structure[i][1])
             r == Validate(Producer(structure[i][2]), field, produced)
         IN  IF IsThrow(field) THEN Ret(field, produced)
             ELSE IF r.v = True THEN LazyEveryField(structure, data, i + 1, r.w) ELSE r

LazySchemas_recordOf_encode(s, x, w) == LazyEachField("encode", s.structure, x, 1, w, <<>>)

LazySchemas_recordOf_decode(s, obj, w) == LazyEachField("decode", s.structure, obj, 1, w, <<>>)

LazySchemas_recordOf_validate(s, data, w) ==
    IF TypeOf(data) # "object" \/ data = Null THEN Ret(False, w)
    ELSE LazyEveryField(s.structure, data, 1, w)

\* unionOf.encode that hands a value no predicate accepts to the right schema
unionOf_encode_defaultsToRight(s, x, w) ==
    LET l == Apply(s.isLeft, x, w)
    IN  IF IsThrow(l.v) THEN l
        ELSE IF l.v = True THEN Encode(s.left, x, Took(l.w, "left"))
        ELSE Encode(s.right, x, Took(l.w, "right"))

unionOf_encode(s, x, w) ==
    LET l == Apply(s.isLeft, x, w)
        r == Apply(s.isRight, x, l.w)
    IN  IF IsThrow(l.v) THEN l
        ELSE IF l.v = True THEN Encode(s.left, x, Took(l.w, "left"))
        ELSE IF IsThrow(r.v) THEN r
        ELSE IF r.v = True THEN Encode(s.right, x, Took(r.w, "right"))
        ELSE Ret(Unreachable, r.w)

\* unionOf.decode that tries the right schema first
unionOf_decode_rightFirst(s, data, w) ==
    LET r == Validate(s.right, data, w)
        l == Validate(s.left, data, r.w)
    IN  IF IsThrow(r.v) THEN r
        ELSE IF r.v = True THEN Decode(s.right, data, Took(r.w, "right"))
        ELSE IF IsThrow(l.v) THEN l
        ELSE IF l.v = True THEN Decode(s.left, data, Took(l.w, "left"))
        ELSE Ret(Unreachable, l.w)

\* unionOf.decode that decodes with the left schema whatever it validates
unionOf_decode_leftOnly(s, data, w) == Decode(s.left, data, Took(w, "left"))

unionOf_decode(s, data, w) ==
    LET l == Validate(s.left, data, w)
        r == Validate(s.right, data, l.w)
    IN  IF IsThrow(l.v) THEN l
        ELSE IF l.v = True THEN Decode(s.left, data, Took(l.w, "left"))
        ELSE IF IsThrow(r.v) THEN r
        ELSE IF r.v = True THEN Decode(s.right, data, Took(r.w, "right"))
        ELSE Ret(Unreachable, r.w)

unionOf_validate(s, data, w) ==
    LET l == Validate(s.left, data, w)
    IN  IF l.v = False THEN Validate(s.right, data, l.w) ELSE l

\* constrain.encode that checks the predicate on what it encoded
constrain_encode_validating(s, x, w) ==
    LET e == Encode(s.schema, x, w)
        p == Apply(s.predicate, e.v, e.w)
    IN  IF IsThrow(e.v) \/ p.v = True THEN e ELSE Ret(Throw("Validation error"), p.w)

constrain_encode(s, x, w) == Encode(s.schema, x, w)

constrain_decode(s, x, w) == Decode(s.schema, x, w)

\* constrain.validate that asks the predicate only
constrain_validate_predicateOnly(s, x, w) == Apply(s.predicate, x, w)

\* constrain.validate that asks the predicate whatever schema.validate said
constrain_validate_eager(s, x, w) ==
    LET v == Validate(s.schema, x, w)
        p == Apply(s.predicate, x, v.w)
    IN  IF v.v = True THEN p ELSE Ret(v.v, p.w)

constrain_validate(s, x, w) ==
    LET v == Validate(s.schema, x, w)
    IN  IF v.v = True THEN Apply(s.predicate, x, v.w) ELSE v

\* the keys every object inherits from Object.prototype (not enumerable,
\* but found by the in operator and by a property read)
ObjectPrototypeKeys == {"toString", "constructor"}

\* a search that returns the last position instead of the first
IndexOf_last(values, x) ==
    LET hits == {i \in 1..Len(values) : StrictEquals(values[i], x)}
    IN  IF hits = {} THEN -1 ELSE (CHOOSE i \in hits : \A j \in hits : i >= j) - 1

\* values.indexOf(x): 0-based position of the first element === x, or -1
IndexOf(values, x) ==
    LET hits == {i \in 1..Len(values) : StrictEquals(values[i], x)}
    IN  IF hits = {} THEN -1 ELSE (CHOOSE i \in hits : \A j \in hits : i <= j) - 1

\* values[x] on the reference array
ElementAt(values, x) == Get(Arr(values), StringOf(x))

\* for (const k in values) if (values[k] === val) return k; throw ...
KeyOf(values, val) ==
    LET hits == {i \in 1..Len(values) : StrictEquals(values[i][2], val)}
    IN  IF hits = {} THEN SerializationError
        ELSE Str(values[CHOOSE i \in hits : \A j \in hits : i <= j][1])

\* key in values on the reference record
In(values, key) == HasKey(values, StringOf(key)) \/ StringOf(key) \in ObjectPrototypeKeys

\* values[key] on the reference record
ValueAt(values, key) ==
    IF HasKey(values, StringOf(key)) THEN Lookup(values, StringOf(key))
    ELSE IF StringOf(key) \in ObjectPrototypeKeys THEN <<"function", StringOf(key)>>
    ELSE Undefined

\* -x
Negate(x) ==
    CASE Tag(NumberOf(x)) = "num" -> Num(0 - NumberOf(x)[2])
      [] Tag(NumberOf(x)) = "frac" -> Frac(0 - NumberOf(x)[2] - 1)
      [] OTHER -> NaN

\* The functions handed to the combinators: the type guards of the
\* primitive schemas, the closures the library itself builds (union,
\* matching, indexing, mapping) and the functions of the callers.
Function(f, x, before) ==
    LET w == Called(before, f.fn)
    IN
    CASE f.fn = "id" -> Ret(x, w)
      [] f.fn = "isAny" -> Ret(True, w)
      \* typeof data === "string" || data instanceof String
      [] f.fn = "isString" -> Ret(Bool(TypeOf(x) = "string" \/ Tag(x) = "String"), w)
      [] f.fn = "isNumber" -> Ret(Bool(TypeOf(x) = "number"), w)
      [] f.fn = "isBoolean" -> Ret(Bool(TypeOf(x) = "boolean"), w)
      [] f.fn = "isNull" -> Ret(Bool(x = Null), w)
      [] f.fn = "isUndefined" -> Ret(Bool(TypeOf(x) = "undefined"), w)
      \* union: x => left.validate(x) and x => !left.validate(x)
      [] f.fn = "validate" -> Validate(f.schema, x, w)
      [] f.fn = "notValidate" ->
            LET r == Validate(f.schema, x, w)
            IN  IF IsThrow(r.v) THEN r ELSE Ret(Bool(r.v = False), r.w)
      \* matching: s => regex.test(s)
      [] f.fn = "regexTest" -> RegExpTest(f.regex, StringOf(x), w)
      \* indexing: x => x >= 0 && x < values.length
      [] f.fn = "inRange" ->
            Ret(Bool(NumGeq(x, Num(0)) /\ NumLess(x, Num(Len(f.values)))), w)
      [] f.fn = "indexOf" ->
            Ret(IF IndexOf(f.values, x) < 0 THEN SerializationError
                ELSE Num(IndexOf(f.values, x)), w)
      [] f.fn = "at" -> Ret(ElementAt(f.values, x), w)
      \* mapping: s => s in values
      [] f.fn = "in" -> Ret(Bool(In(f.values, x)), w)
      [] f.fn = "keyOf" -> Ret(KeyOf(f.values, x), w)
      [] f.fn = "lookup" -> Ret(ValueAt(f.values, x), w)
      \* x => x > 0
      [] f.fn = "positive" -> Ret(Bool(NumLess(Num(0), x)), w)
      \* x => typeof x === "number" && x > 0
      [] f.fn = "isPositive" -> Ret(Bool(TypeOf(x) = "number" /\ NumLess(Num(0), x)), w)
      \* x => -x
      [] f.fn = "negate" -> Ret(Negate(x), w)
      \* x => [x], ([x]) => x and the guard of one-element arrays of a number
      [] f.fn = "box" -> Ret(Arr(<<x>>), w)
      [] f.fn = "unbox" -> Ret(Get(x, IndexKey(0)), w)
      [] f.fn = "isBoxedNumber" ->
            Ret(Bool(IsArray(x) /\ Len(x[2]) = 1 /\ TypeOf(x[2][1]) = "number"), w)
      \* ({ name, age }) => new Person(name, age)
      [] f.fn = "newPerson" ->
            Ret(IF IsNullish(x) THEN TypeError
                ELSE Inst("Person", << <<"name", Get(x, "name")>>, <<"age", Get(x, "age")>> >>), w)

\* lazy: schema().encode(val), schema().decode(data), schema().validate(data)
lazy_encode(s, val, w) == Encode(Producer(s.schema), val, Called(w, s.schema))

\* lazy.decode on a schema that was produced before the call
lazy_decode_produced(s, data, w) == Decode(Producer(s.schema), data, w)

lazy_decode(s, data, w) == Decode(Producer(s.schema), data, Called(w, s.schema))

lazy_validate(s, data, w) == Validate(Producer(s.schema), data, Called(w, s.schema))

\* the method op of the schema s, called on x; the function s, called on x
Run(op, s, x, w) ==
    IF op = "apply" THEN Function(s, x, w)
    ELSE IF op = "encode" THEN
        CASE s.kind \in {"primitive", "literal"} -> Ret(x, w)
          [] s.kind = "contra" -> contra_encode(s, x, w)
          [] s.kind = "co" -> co_encode(s, x, w)
          [] s.kind = "lazy" -> lazy_encode(s, x, w)
          [] s.kind = "injecting" -> Encode(s.baseSchema, x, w)
          [] s.kind \in {"arrayOf", "nonEmptyArrayOf"} -> arrayOf_encode(s, x, w)
          [] s.kind = "tupleOf" -> tupleOf_encode(s, x, w)
          [] s.kind = "object" -> object_encode(s, x, w)
          [] s.kind = "map" -> map_encode(s, x, w)
          [] s.kind = "recordOf" -> recordOf_encode(s, x, w)
          [] s.kind = "unionOf" -> unionOf_encode(s, x, w)
          [] s.kind = "constrain" -> constrain_encode(s, x, w)
          [] s.kind \in {"LazySchemas.arrayOf", "LazySchemas.nonEmptyArrayOf"} ->
                LazySchemas_arrayOf_encode(s, x, w)
          [] s.kind = "LazySchemas.recordOf" -> LazySchemas_recordOf_encode(s, x, w)
    ELSE IF op = "decode" THEN
        CASE s.kind \in {"primitive", "literal"} -> Ret(x, w)
          [] s.kind = "contra" -> contra_decode(s, x, w)
          [] s.kind = "co" -> co_decode(s, x, w)
          [] s.kind = "lazy" -> lazy_decode(s, x, w)
          [] s.kind = "injecting" -> Decode(s.baseSchema, x, w)
          [] s.kind \in {"arrayOf", "nonEmptyArrayOf"} -> arrayOf_decode(s, x, w)
          [] s.kind = "tupleOf" -> tupleOf_decode(s, x, w)
          [] s.kind = "object" -> object_decode(s, x, w)
          [] s.kind = "map" -> map_decode(s, x, w)
          [] s.kind = "recordOf" -> recordOf_decode(s, x, w)
          [] s.kind = "unionOf" -> unionOf_decode(s, x, w)
          [] s.kind = "constrain" -> constrain_decode(s, x, w)
          [] s.kind \in {"LazySchemas.arrayOf", "LazySchemas.nonEmptyArrayOf"} ->
                LazySchemas_arrayOf_decode(s, x, w)
          [] s.kind = "LazySchemas.recordOf" -> LazySchemas_recordOf_decode(s, x, w)
    ELSE
        CASE s.kind = "primitive" -> Apply(s.validate, x, w)
          [] s.kind = "literal" -> Ret(Bool(StrictEquals(x, s.value)), w)
          [] s.kind = "contra" -> contra_validate(s, x, w)
          [] s.kind = "co" -> Apply(s.validate, x, w)
          [] s.kind = "lazy" -> lazy_validate(s, x, w)
          [] s.kind = "injecting" -> Validate(s.baseSchema, x, w)
          [] s.kind = "arrayOf" -> arrayOf_validate(s, x, w)
          [] s.kind = "nonEmptyArrayOf" -> nonEmptyArrayOf_validate(s, x, w)
          [] s.kind = "tupleOf" -> tupleOf_validate(s, x, w)
          [] s.kind = "object" -> object_validate(s, x, w)
          [] s.kind = "map" -> map_validate(s, x, w)
          [] s.kind = "recordOf" -> recordOf_validate(s, x, w)
          [] s.kind = "unionOf" -> unionOf_validate(s, x, w)
          [] s.kind = "constrain" -> constrain_validate(s, x, w)
          [] s.kind = "LazySchemas.arrayOf" -> LazySchemas_arrayOf_validate(s, x, w)
          [] s.kind = "LazySchemas.nonEmptyArrayOf" ->
                LazySchemas_nonEmptyArrayOf_validate(s, x, w)
          [] s.kind = "LazySchemas.recordOf" -> LazySchemas_recordOf_validate(s, x, w)

(***************************************************************************)
(* Domain values.                                                          *)
(***************************************************************************)
RECURSIVE Equiv(_, _), InDomain(_, _, _)

\* equality of two domain values: structural, the order of the keys of an
\* object does not count and NaN equals NaN
Equiv(a, b) ==
    IF Tag(a) # Tag(b) THEN FALSE
    ELSE CASE Tag(a) = "array" ->
                /\ Len(a[2]) = Len(b[2])
                /\ \A i \in 1..Len(a[2]) : Equiv(a[2][i], b[2][i])
           [] Tag(a) = "object" ->
                /\ KeySet(a[2]) = KeySet(b[2])
                /\ \A k \in KeySet(a[2]) : Equiv(Lookup(a[2], k), Lookup(b[2], k))
           [] Tag(a) = "instance" ->
                /\ a[2][1] = b[2][1]
                /\ Equiv(Obj(a[2][2]), Obj(b[2][2]))
           [] Tag(a) = "map" ->
                /\ Len(a[2]) = Len(b[2])
                /\ \A i \in 1..Len(a[2]) :
                      Equiv(a[2][i][1], b[2][i][1]) /\ Equiv(a[2][i][2], b[2][i][2])
           [] OTHER -> a = b

\* the world of a program that has not called anything yet
NoCalls == World(0, <<>>)

\* the domain type U of contra(schema, encode, decode), from the types of
\* the two functions
InParameterType(s, x, wellFormed) ==
    CASE s.encode.fn = "indexOf" ->
            IF wellFormed THEN \E i \in 1..Len(s.encode.values) : s.encode.values[i] = x
            ELSE \E i \in 1..Len(s.encode.values) :
                    TypeOf(s.encode.values[i]) = TypeOf(x)
      [] s.encode.fn = "keyOf" ->
            IF wellFormed THEN \E i \in 1..Len(s.encode.values) : s.encode.values[i][2] = x
            ELSE \E i \in 1..Len(s.encode.values) :
                    TypeOf(s.encode.values[i][2]) = TypeOf(x)
      [] s.encode.fn = "negate" -> TypeOf(x) = "number"
      [] s.decode.fn = "newPerson" -> Tag(x) = "instance" /\ x[2][1] = "Person"
      [] OTHER -> TRUE

\* the record of the data fields of a class instance
Fields(x) == IF Tag(x) = "instance" THEN Obj(x[2][2]) ELSE x

\* x has the domain type T of the Schema<T, S> s; with wellFormed, x also
\* meets what the schema constrains: it is the literal, it is listed in
\* the reference values, its representation satisfies the predicates
InDomain(s, x, wellFormed) ==
    CASE s.kind = "primitive" ->
            Apply(s.validate, x, NoCalls).v = True /\ Tag(x) # "String"
      [] s.kind = "literal" ->
            IF wellFormed THEN x = s.value ELSE TypeOf(x) = TypeOf(s.value)
      [] s.kind = "contra" ->
            /\ InParameterType(s, x, wellFormed)
            /\ LET e == Apply(s.encode, x, NoCalls).v
               IN  IsThrow(e) \/ InDomain(s.schema, Fields(e), wellFormed)
      [] s.kind = "co" -> InDomain(s.schema, x, wellFormed)
      [] s.kind = "lazy" -> InDomain(Producer(s.schema), x, wellFormed)
      [] s.kind = "injecting" -> InDomain(s.baseSchema, x, wellFormed)
      [] s.kind = "arrayOf" ->
            IsArray(x) /\ \A i \in 1..Len(x[2]) : InDomain(s.elementsSchema, x[2][i], wellFormed)
      [] s.kind = "nonEmptyArrayOf" ->
            /\ IsArray(x) /\ Len(x[2]) >= 1
            /\ \A i \in 1..Len(x[2]) : InDomain(s.elementsSchema, x[2][i], wellFormed)
      [] s.kind = "tupleOf" ->
            /\ IsArray(x) /\ Len(x[2]) = Len(s.elementSchemas)
            /\ \A i \in 1..Len(x[2]) : InDomain(s.elementSchemas[i], x[2][i], wellFormed)
      [] s.kind = "object" ->
            /\ Tag(x) = "object"
            /\ \A i \in 1..Len(x[2]) : InDomain(s.values, x[2][i][2], wellFormed)
      [] s.kind = "map" ->
            /\ Tag(x) = "map"
            /\ \A i \in 1..Len(x[2]) :
                  /\ InDomain(s.keys, x[2][i][1], wellFormed)
                  /\ InDomain(s.values, x[2][i][2], wellFormed)
      [] s.kind = "recordOf" ->
            /\ Tag(x) = "object"
            /\ KeySet(Props(x)) = {s.structure[i][1] : i \in 1..Len(s.structure)}
            /\ \A i \in 1..Len(s.structure) :
                  InDomain(s.structure[i][2], Get(x, s.structure[i][1]), wellFormed)
      [] s.kind = "unionOf" ->
            InDomain(s.left, x, wellFormed) \/ InDomain(s.right, x, wellFormed)
      [] s.kind = "LazySchemas.arrayOf" ->
            InDomain(arrayOf(Producer(s.elementsSchema)), x, wellFormed)
      [] s.kind = "LazySchemas.nonEmptyArrayOf" ->
            InDomain(nonEmptyArrayOf(Producer(s.elementsSchema)), x, wellFormed)
      [] s.kind = "LazySchemas.recordOf" ->
            InDomain(recordOf([i \in 1..Len(s.structure) |->
                        <<s.structure[i][1], Producer(s.structure[i][2])>>]),
                     x, wellFormed)
      [] s.kind = "constrain" ->
            /\ InDomain(s.schema, x, wellFormed)
            /\ wellFormed =>
                  Apply(s.predicate, Encode(s.schema, x, NoCalls).v, NoCalls).v = True

WellTyped(s, x) == InDomain(s, x, FALSE)
WellFormed(s, x) == InDomain(s, x, TRUE)

(***************************************************************************)
(* The schemas of the program.  A schema is built once and then used for   *)
(* any number of calls; the state names it by the expression that built    *)
(* it.                                                                     *)
(***************************************************************************)
globalA == RegExp("a", TRUE)
Person == << <<"name", aString>>, <<"age", aNumber>> >>
LazyPerson == << <<"name", "aString">>, <<"age", "aNumber">> >>
OptionalX(s) == recordOf(<< <<"x", optional(s)>> >>)
AB == <<Str("a"), Str("b")>>
ABA == <<Str("a"), Str("b"), Str("a")>>
Ones == << <<"a", Num(1)>>, <<"b", Num(1)>>, <<"c", NaN>> >>

SchemaTable == <<
    <<"anAny", anAny>>,
    <<"injecting(recordOf({name: aString, age: aNumber}), id, () => newPerson)",
        injecting(recordOf(Person), id, [fn |-> "newPerson"])>>,
    <<"aString", aString>>,
    <<"aNumber", aNumber>>,
    <<"aBoolean", aBoolean>>,
    <<"aNull", aNull>>,
    <<"anUndefined", anUndefined>>,
    <<"literal(1)", literal(Num(1))>>,
    <<"contra(aNumber, negate, negate)", contra(aNumber, [fn |-> "negate"], [fn |-> "negate"])>>,
    <<"co(aNumber, box, unbox, isBoxedNumber)",
      co(aNumber, [fn |-> "box"], [fn |-> "unbox"], [fn |-> "isBoxedNumber"])>>,
    <<"lazy(chain)", lazy("chain")>>,
    <<"lazy(() => arrayOf(aNumber))", lazy("numbers")>>,
    <<"arrayOf(aNumber)", arrayOf(aNumber)>>,
    <<"arrayOf(indexing([a, b]))", arrayOf(indexing(AB))>>,
    <<"nonEmptyArrayOf(aString)", nonEmptyArrayOf(aString)>>,
    <<"tupleOf(aNumber, aString)", tupleOf(<<aNumber, aString>>)>>,
    <<"anEmptyArray", tupleOf(<<>>)>>,
    <<"object(aNumber)", object(aNumber)>>,
    <<"map(aNumber, aString)", map(aNumber, aString)>>,
    <<"map(arrayOf(aNumber), aString)", map(arrayOf(aNumber), aString)>>,
    <<"recordOf({name: aString, age: aNumber})", recordOf(Person)>>,
    <<"anEmptyObject", recordOf(<<>>)>>,
    <<"classOf({name: aString, age: aNumber}, newPerson)", classOf(Person, [fn |-> "newPerson"])>>,
    <<"unionOf(isString, isPositive, aString, aNumber)",
      unionOf([fn |-> "isString"], [fn |-> "isPositive"], aString, aNumber)>>,
    <<"unionOf(isNumber, isString, constrain(aNumber, positive), indexing([a, b]))",
      unionOf([fn |-> "isNumber"], [fn |-> "isString"],
              constrain(aNumber, [fn |-> "positive"]), indexing(AB))>>,
    <<"unionOf(isNumber, isNumber, aNumber, contra(aNumber, negate, negate))",
      unionOf([fn |-> "isNumber"], [fn |-> "isNumber"],
              aNumber, contra(aNumber, [fn |-> "negate"], [fn |-> "negate"]))>>,
    <<"union(aNumber, aString)", union(aNumber, aString)>>,
    <<"union(anAny, aNumber)", union(anAny, aNumber)>>,
    <<"union(aNumber, indexing([a, b]))", union(aNumber, indexing(AB))>>,
    <<"union(matching(/a/g), aNumber)", union(matching(globalA), aNumber)>>,
    <<"optional(aString)", optional(aString)>>,
    <<"recordOf({x: optional(aNumber)})", OptionalX(aNumber)>>,
    <<"recordOf({x: optional(matching(/a/g))})", OptionalX(matching(globalA))>>,
    <<"recordOf({x: optional(arrayOf(aNumber))})", OptionalX(arrayOf(aNumber))>>,
    <<"recordOf({x: optional(anUndefined)})", OptionalX(anUndefined)>>,
    <<"constrain(aNumber, positive)", constrain(aNumber, [fn |-> "positive"])>>,
    <<"asserting(aNumber, isPositive)", asserting(aNumber, [fn |-> "isPositive"])>>,
    <<"matching(/^a+$/)", matching(RegExp("^a+$", FALSE))>>,
    <<"matching(/a/)", matching(RegExp("a", FALSE))>>,
    <<"matching(/a/g)", matching(globalA)>>,
    <<"indexing([a, b])", indexing(AB)>>,
    <<"indexing([a, b, a])", indexing(ABA)>>,
    <<"indexing([NaN, 1])", indexing(<<NaN, Num(1)>>)>>,
    <<"mapping({a: 1, b: 1, c: NaN})", mapping(Ones)>>,
    <<"LazySchemas.arrayOf(() => aNumber)", LazySchemas_arrayOf("aNumber")>>,
    <<"LazySchemas.nonEmptyArrayOf(() => aString)", LazySchemas_nonEmptyArrayOf("aString")>>,
    <<"LazySchemas.recordOf({name: () => aString, age: () => aNumber})",
      LazySchemas_recordOf(LazyPerson)>>,
    <<"LazySchemas.classOf({name: () => aString, age: () => aNumber}, newPerson)",
      LazySchemas_classOf(LazyPerson, [fn |-> "newPerson"])>>
>>

SchemaNames == {SchemaTable[i][1] : i \in 1..Len(SchemaTable)}

(***************************************************************************)
(* The values handed to the calls: the opaque values a parser can deliver  *)
(* (primitives, arrays and records, nested) and the domain values that     *)
(* have no such form (maps, class instances).                              *)
(***************************************************************************)
RECURSIVE SeqsUpTo(_, _)
\* the sequences of length at most n over the set S
SeqsUpTo(S, n) ==
    IF n = 0 THEN {<<>>}
    ELSE SeqsUpTo(S, n - 1) \cup {Append(q, e) : q \in SeqsUpTo(S, n - 1), e \in S}

Primitives ==
    {Undefined, Null, True, Num(0), Num(1), Num(0 - 1), Num(5), Frac(0), NaN,
     Str("a"), Str("b"), Str("c"), Str("ab"), Str("toString"), StringObject("a"),
     NumberObject(1)}

Elements == {Num(1), Str("a"), Undefined}
Pairs == {Arr(<<Num(1), Str("a")>>), Arr(<<Num(1), Str("b")>>), Arr(<<Num(0), Str("a")>>)}

Arrays ==
    {Arr(q) : q \in SeqsUpTo(Elements, MaxLen)}
        \cup {Arr(q) : q \in SeqsUpTo(Pairs, MaxLen)}
        \cup {Arr(<<Num(1), Str("a"), True>>), Arr(<<Num(0), Num(1)>>),
              Arr(<<Arr(<<Arr(<<Num(1)>>), Str("a")>>), Arr(<<Arr(<<Num(1)>>), Str("b")>>)>>)}

Node(value, next) == Obj(<< <<"value", value>>, <<"next", next>> >>)

Records ==
    {Obj(<<>>)}
        \cup {Obj(<< <<"x", v>> >>) :
                v \in {Undefined, Null, Num(1), Str("a"), Str("s"), Arr(<<Num(1)>>)}}
        \cup {Obj(<< <<"name", Str("a")>>, <<"age", Num(1)>> >>),
              Obj(<< <<"age", Num(1)>>, <<"name", Str("a")>> >>),
              Obj(<< <<"name", Str("a")>> >>),
              Obj(<< <<"name", Num(1)>>, <<"age", Num(1)>> >>),
              Obj(<< <<"name", Str("a")>>, <<"age", Num(1)>>, <<"x", Num(1)>> >>),
              Obj(<< <<"value", Num(1)>> >>),
              Node(Num(1), Undefined),
              Node(Str("a"), Undefined),
              Node(Num(1), Num(1)),
              Node(Num(1), Node(Num(0), Undefined)),
              Node(Num(1), Node(Num(0), Node(Num(5), Undefined))),
              Node(Num(1), Node(Str("a"), Undefined))}

Data == Primitives \cup Arrays \cup Records

DomainValues ==
    Data \cup {MapOf(<<>>),
               MapOf(<< <<Num(1), Str("a")>> >>),
               MapOf(<< <<Num(1), Str("a")>>, <<NaN, Str("b")>> >>),
               MapOf(<< <<Arr(<<Num(1)>>), Str("a")>>, <<Arr(<<Num(1)>>), Str("b")>> >>),
               Inst("Person", << <<"name", Str("a")>>, <<"age", Num(1)>> >>)}

(***************************************************************************)
(* The program: a schema and the calls made on it.                         *)
(***************************************************************************)
\* The outcome of schema.op(d) is a function of the schema, the operation,
\* lastIndex and d only.  Outcomes tabulates it for the schemas of the
\* table, the values of the universe and the positions a search can leave
\* lastIndex at; Domains holds the well-typed domain values of each schema.
Ops == {"encode", "decode", "validate"}
Positions == {0, 1}
\* f with every value computed
Tabulated(f) == f @@ <<>>
Outcomes ==
    Tabulated([i \in 1..Len(SchemaTable) |->
        Tabulated([op \in Ops |->
            Tabulated([at \in Positions |->
                Tabulated([d \in DomainValues |->
                    Run(op, SchemaTable[i][2], d, World(at, <<>>))])])])])
Domains ==
    Tabulated([i \in 1..Len(SchemaTable) |->
        Tabulated([x \in DomainValues |-> WellTyped(SchemaTable[i][2], x)])])

VARIABLES
    built,      \* the schema the program has built: <<expression, term,
                \* position in the table>>
    lastIndex,  \* lastIndex of the regular expression with the global flag
    call,       \* the last call: operation, argument, result, branches taken,
                \* functions called and the lastIndex it started with
    origin      \* the call that produced or validated the argument of call

vars == <<built, lastIndex, call, origin>>

Call(op, arg, r) ==
    [op |-> op, arg |-> arg, res |-> r.v, branches |-> r.w.branches,
     calls |-> r.w.calls, writes |-> r.w.writes, at |-> lastIndex]
NoCall ==
    [op |-> "none", arg |-> Undefined, res |-> Undefined, branches |-> <<>>,
     calls |-> <<>>, writes |-> <<>>, at |-> 0]

Init ==
    /\ \E i \in 1..Len(SchemaTable) : built = <<SchemaTable[i][1], SchemaTable[i][2], i>>
    /\ lastIndex = 0
    /\ call = NoCall
    /\ origin = NoCall

\* whether the argument d comes out of the last call: the representation
\* it encoded, the value it accepted, or the value it was asked about
Encoded(d) == call.op = "encode" /\ call.res = d
Validated(d) == call.op = "validate" /\ call.arg = d /\ call.res = True
Asked(d) == call.op = "validate" /\ call.arg = d

\* schema.op(d), started with the lastIndex the calls before left
Outcome(op, d) ==
    IF d \in DomainValues /\ lastIndex \in Positions
    THEN Outcomes[built[3]][op][lastIndex][d]
    ELSE Run(op, built[2], d, World(lastIndex, <<>>))

\* schema.encode(x)
EncodeCall(x) ==
    /\ Domains[built[3]][x]
    /\ \E r \in {Outcome("encode", x)} :
          /\ call' = Call("encode", x, r)
          /\ lastIndex' = r.w.lastIndex
    /\ origin' = NoCall
    /\ UNCHANGED built

\* schema.decode(d)
DecodeCall(d) ==
    /\ \E r \in {Outcome("decode", d)} :
          /\ call' = Call("decode", d, r)
          /\ lastIndex' = r.w.lastIndex
    /\ origin' = IF Encoded(d) \/ Validated(d) THEN call ELSE NoCall
    /\ UNCHANGED built

\* schema.validate(d)
ValidateCall(d) ==
    /\ \E r \in {Outcome("validate", d)} :
          /\ call' = Call("validate", d, r)
          /\ lastIndex' = r.w.lastIndex
    /\ origin' = IF Encoded(d) \/ Asked(d) THEN call ELSE NoCall
    /\ UNCHANGED built

\* what encode returned, when it returned
Returned == IF call.op = "encode" /\ ~IsThrow(call.res) THEN {call.res} ELSE {}

Next ==
    \/ \E x \in DomainValues : EncodeCall(x)
    \/ \E d \in Data \cup Returned : DecodeCall(d)
    \/ \E d \in Data \cup Returned : ValidateCall(d)

Spec == Init /\ [][Next]_vars

(***************************************************************************)
(* Properties.                                                             *)
(***************************************************************************)
\* the last call decoded (validated) what an encode of this schema returned
DecodedEncoded == call.op = "decode" /\ origin.op = "encode"
ValidatedEncoded == call.op = "validate" /\ origin.op = "encode"
\* the last call decoded a value that validate had just accepted
DecodedValidated == call.op = "decode" /\ origin.op = "validate"

C2_ValidationSoundness ==
    ValidatedEncoded /\ WellFormed(built[2], origin.arg) => call.res = True

\* C3 as stated: when validate(d) has returned true, decode(d) completes
\* without raising an error.
C3_ValidateGuardsDecode == DecodedValidated => ~IsThrow(call.res)

\* C4: validate answers true or false on every opaque value and never
\* raises an error.
C4_ValidateNeverThrows == call.op = "validate" => call.res \in {True, False}

\* a record with a missing field is rejected by a false result
C4_Witness ==
    /\ built[1] = "recordOf({name: aString, age: aNumber})"
    /\ call.op = "validate"
    /\ call.arg = Obj(<< <<"name", Str("a")>> >>)
    /\ call.res = False

RECURSIVE HasFragileEncode(_)
\* the schema holds an indexing or mapping search or a unionOf dispatch
HasFragileEncode(s) ==
    CASE s.kind \in {"primitive", "literal"} -> FALSE
      [] s.kind = "contra" ->
            s.encode.fn \in {"indexOf", "keyOf"} \/ HasFragileEncode(s.schema)
      [] s.kind \in {"co", "constrain"} -> HasFragileEncode(s.schema)
      [] s.kind = "lazy" -> s.schema = "chain"
      [] s.kind = "injecting" -> HasFragileEncode(s.baseSchema)
      [] s.kind \in {"arrayOf", "nonEmptyArrayOf"} -> HasFragileEncode(s.elementsSchema)
      [] s.kind = "tupleOf" ->
            \E i \in 1..Len(s.elementSchemas) : HasFragileEncode(s.elementSchemas[i])
      [] s.kind = "object" -> HasFragileEncode(s.values)
      [] s.kind = "map" -> HasFragileEncode(s.keys) \/ HasFragileEncode(s.values)
      [] s.kind = "recordOf" ->
            \E i \in 1..Len(s.structure) : HasFragileEncode(s.structure[i][2])
      [] s.kind = "unionOf" -> TRUE
      [] s.kind \in {"LazySchemas.arrayOf", "LazySchemas.nonEmptyArrayOf"} ->
            HasFragileEncode(Producer(s.elementsSchema))
      [] s.kind = "LazySchemas.recordOf" ->
            \E i \in 1..Len(s.structure) : HasFragileEncode(Producer(s.structure[i][2]))

Before == World(call.at, <<>>)
IsUnionOf == built[2].kind = "unionOf"

\* C6: when the left predicate accepts x, unionOf and union encode x with
\* the left schema, and when left.validate accepts d they decode d with the
\* left schema, whatever the right side would do.
C6_LeftBias ==
    IsUnionOf =>
        LET s == built[2]
            isLeft == Apply(s.isLeft, call.arg, Before)
            leftValidates == Validate(s.left, call.arg, Before)
        IN  /\ call.op = "encode" /\ isLeft.v = True
                => call.res = Encode(s.left, call.arg, isLeft.w).v
            /\ call.op = "decode" /\ leftValidates.v = True
                => call.res = Decode(s.left, call.arg, leftValidates.w).v

\* a representation both schemas accept and decode differently is decoded
\* by the left schema
C6_Witness ==
    /\ built[1] = "unionOf(isNumber, isNumber, aNumber, contra(aNumber, negate, negate))"
    /\ call.op = "decode"
    /\ call.arg = Num(1)
    /\ call.res = Num(1)
    /\ Validate(built[2].right, call.arg, Before).v = True
    /\ Decode(built[2].right, call.arg, Before).v = Num(0 - 1)

\* C7: unionOf.encode raises the unreachable error when neither predicate
\* accepts x, unionOf.decode raises it when neither schema validates d, and
\* validate returns false for such a d.
C7_NoBranchRaises ==
    IsUnionOf =>
        LET s == built[2]
            isLeft == Apply(s.isLeft, call.arg, Before)
            isRight == Apply(s.isRight, call.arg, isLeft.w)
            leftValidates == Validate(s.left, call.arg, Before)
            rightValidates == Validate(s.right, call.arg, leftValidates.w)
        IN  /\ call.op = "encode" /\ isLeft.v = False /\ isRight.v = False
                => call.res = Unreachable
            /\ call.op = "decode" /\ leftValidates.v = False /\ rightValidates.v = False
                => call.res = Unreachable
            /\ call.op = "validate" /\ leftValidates.v = False /\ rightValidates.v = False
                => call.res = False

\* a number that is neither a string nor positive makes encode raise
C7_Witness ==
    /\ built[1] = "unionOf(isString, isPositive, aString, aNumber)"
    /\ call.op = "encode"
    /\ call.arg = Num(0 - 1)
    /\ call.res = Unreachable

\* the schema s of the schemas recordOf({ x: optional(s) })
OptionalXOf(name) ==
    CASE name = "recordOf({x: optional(aNumber)})" -> aNumber
      [] name = "recordOf({x: optional(matching(/a/g))})" -> matching(globalA)
      [] name = "recordOf({x: optional(arrayOf(aNumber))})" -> arrayOf(aNumber)
      [] name = "recordOf({x: optional(anUndefined)})" -> anUndefined
OptionalXNames ==
    {"recordOf({x: optional(aNumber)})", "recordOf({x: optional(matching(/a/g))})",
     "recordOf({x: optional(arrayOf(aNumber))})", "recordOf({x: optional(anUndefined)})"}

\* C8: recordOf({ x: optional(s) }).validate(d) of a record d is true when
\* x is absent or undefined, true when s.validate accepts the value of x,
\* and false when x holds a defined value that s.validate rejects.
C8_OptionalField ==
    built[1] \in OptionalXNames /\ call.op = "validate" /\ Tag(call.arg) = "object"
        => LET x == Get(call.arg, "x")
           IN  call.res = Bool(x = Undefined
                               \/ Validate(OptionalXOf(built[1]), x, Before).v = True)

\* { x: "s" } is rejected where x is an optional number
C8_Witness ==
    /\ built[1] = "recordOf({x: optional(aNumber)})"
    /\ call.op = "validate"
    /\ call.arg = Obj(<< <<"x", Str("s")>> >>)
    /\ call.res = False

\* C9: map(keys, values).decode(seq) returns a map whose keys are exactly
\* the decoded keys of seq, each with the decoded value of its last
\* occurrence in seq.
C9_MapLastWriteWins ==
    built[2].kind = "map" /\ call.op = "decode"
                           /\ Validate(built[2], call.arg, Before).v = True
        => LET seq == call.arg[2]
               K(i) == Decode(built[2].keys, seq[i][2][1], Before).v
               V(i) == Decode(built[2].values, seq[i][2][2], Before).v
               entries == call.res[2]
           IN  /\ Tag(call.res) = "map"
               /\ {entries[j][1] : j \in 1..Len(entries)} = {K(i) : i \in 1..Len(seq)}
               /\ \A j \in 1..Len(entries) :
                     \E i \in 1..Len(seq) :
                        /\ K(i) = entries[j][1]
                        /\ V(i) = entries[j][2]
                        /\ IsPrimitive(K(i)) => \A l \in (i + 1)..Len(seq) : K(l) # K(i)
               /\ \A j, l \in 1..Len(entries) :
                     IsPrimitive(entries[j][1]) /\ entries[j][1] = entries[l][1] => j = l

\* [[1, "a"], [1, "b"]] decodes to the map 1 -> "b"
C9_Witness ==
    /\ built[1] = "map(aNumber, aString)"
    /\ call.op = "decode"
    /\ call.arg = Arr(<<Arr(<<Num(1), Str("a")>>), Arr(<<Num(1), Str("b")>>)>>)
    /\ call.res = MapOf(<< <<Num(1), Str("b")>> >>)

IsIndexing == built[2].kind = "contra" /\ built[2].encode.fn = "indexOf"
IsMapping == built[2].kind = "contra" /\ built[2].encode.fn = "keyOf"
\* the first of the positions in hits
First(hits) == CHOOSE i \in hits : \A j \in hits : i <= j

\* C10 as stated: indexing(values).encode(x) raises when x is not an
\* element of values and returns the position of its first occurrence
\* otherwise; mapping(values).encode(x) raises when x is the value of no
\* key and returns the first key that holds x otherwise.
C10_AbsentValueRaises ==
    call.op = "encode" =>
        LET values == built[2].encode.values
            at == {i \in 1..Len(values) : values[i] = call.arg}
            under == {i \in 1..Len(values) : values[i][2] = call.arg}
        IN  /\ IsIndexing => call.res = IF at = {} THEN SerializationError
                                        ELSE Num(First(at) - 1)
            /\ IsMapping => call.res = IF under = {} THEN SerializationError
                                       ELSE Str(values[First(under)][1])

\* C10 amended: the search compares with ===, so encode raises when no
\* reference value is strictly equal to x (NaN is never found, also when
\* it is listed) and returns the first position or key whose value is
\* strictly equal to x otherwise.
C10_AbsentValueRaisesStrictly ==
    call.op = "encode" =>
        LET values == built[2].encode.values
            at == {i \in 1..Len(values) : StrictEquals(values[i], call.arg)}
            under == {i \in 1..Len(values) : StrictEquals(values[i][2], call.arg)}
        IN  /\ IsIndexing => call.res = IF at = {} THEN SerializationError
                                        ELSE Num(First(at) - 1)
            /\ IsMapping => call.res = IF under = {} THEN SerializationError
                                       ELSE Str(values[First(under)][1])

\* a string that is not listed makes indexing.encode raise
C10_Witness ==
    /\ built[1] = "indexing([a, b])"
    /\ call.op = "encode"
    /\ call.arg = Str("c")
    /\ call.res = SerializationError

\* C11: indexing(values).validate(v) is true exactly when v is an integer
\* with 0 <= v < length of values; numbers out of range, negative numbers,
\* numbers that are not integers and values that are not numbers are
\* rejected.
C11_IndexingValidatesIndices ==
    IsIndexing /\ call.op = "validate"
        => call.res = Bool(/\ Tag(call.arg) = "num"
                           /\ call.arg[2] >= 0
                           /\ call.arg[2] < Len(built[2].encode.values))

\* C12: tupleOf(s1..sn).validate(d) is true if and only if d is an array of
\* length exactly n whose element at every position i is accepted by si;
\* longer and shorter arrays are rejected.
C12_TupleArity ==
    built[2].kind = "tupleOf" /\ call.op = "validate"
        => LET schemas == built[2].elementSchemas
           IN  call.res = Bool(/\ Tag(call.arg) = "array"
                               /\ Len(call.arg[2]) = Len(schemas)
                               /\ \A i \in 1..Len(schemas) :
                                     Validate(schemas[i], call.arg[2][i], Before).v = True)

\* [1, "a", true] is rejected by tupleOf(aNumber, aString) although its
\* first two elements validate
C12_Witness ==
    /\ built[1] = "tupleOf(aNumber, aString)"
    /\ call.op = "validate"
    /\ call.arg = Arr(<<Num(1), Str("a"), True>>)
    /\ call.res = False
    /\ Validate(built[2], Arr(<<Num(1), Str("a")>>), Before).v = True

RECURSIVE IsChain(_), ChainLength(_)
\* x is a finite chain: undefined, or a node with a numeric value whose
\* next is a chain
IsChain(x) ==
    \/ x = Undefined
    \/ /\ Tag(x) = "object"
       /\ TypeOf(Get(x, "value")) = "number"
       /\ IsChain(Get(x, "next"))
\* the number of nodes of a chain
ChainLength(x) == IF x = Undefined THEN 0 ELSE 1 + ChainLength(Get(x, "next"))
\* how many times the running call has called fn
Count(fn, calls) == Cardinality({i \in 1..Len(calls) : calls[i] = fn})

\* C13: for L = lazy(() => optional(recordOf({ value: aNumber, next: L })))
\* validate returns on every finite value: true for a chain whose nodes
\* all have a numeric value and whose last node has next absent or
\* undefined, after one call of the producer per node and one for the end
\* of the chain, and false when a node is malformed.
C13_LazyChainValidates ==
    built[1] = "lazy(chain)" /\ call.op = "validate"
        => /\ call.res = Bool(IsChain(call.arg))
           /\ call.res = True => Count("chain", call.calls) = ChainLength(call.arg) + 1

\* a chain of three nodes is accepted after four calls of the producer, and
\* the same schema rejects a chain whose second node holds a string
C13_Witness ==
    /\ built[1] = "lazy(chain)"
    /\ call.op = "validate"
    /\ call.arg = Node(Num(1), Node(Num(0), Node(Num(5), Undefined)))
    /\ call.res = True
    /\ Count("chain", call.calls) = 4
    /\ Validate(built[2], Node(Num(1), Node(Str("a"), Undefined)), Before).v = False

IsRecordOf == built[2].kind \in {"recordOf", "LazySchemas.recordOf"}
\* the keys the structure of the record schema declares and their schemas
Declared == {built[2].structure[i][1] : i \in 1..Len(built[2].structure)}
FieldSchema(i) ==
    IF built[2].kind = "recordOf" THEN built[2].structure[i][2]
    ELSE Producer(built[2].structure[i][2])
\* e is the record d with more keys, none of them declared
Extends(e, d) ==
    /\ Tag(e) = "object" /\ Tag(d) = "object"
    /\ KeySet(e[2]) \ KeySet(d[2]) # {}
    /\ (KeySet(e[2]) \ KeySet(d[2])) \cap Declared = {}
    /\ \A k \in KeySet(d[2]) : HasKey(e[2], k) /\ Lookup(e[2], k) = Lookup(d[2], k)

\* C14: recordOf(fields).validate(d) depends only on the declared fields:
\* it is true exactly when d is an object and the schema of every declared
\* field accepts the value d holds under that key (undefined when the key
\* is absent), and a record that extends an accepted record with
\* undeclared keys is accepted too.
C14_OpenWorldRecord ==
    IsRecordOf /\ call.op = "validate"
        => /\ call.res =
                Bool(/\ TypeOf(call.arg) = "object" /\ call.arg # Null
                     /\ \A i \in 1..Len(built[2].structure) :
                           Validate(FieldSchema(i),
                                    Get(call.arg, built[2].structure[i][1]),
                                    Before).v = True)
           /\ \A d \in Records :
                 Extends(call.arg, d) /\ Validate(built[2], d, Before).v = True
                    => call.res = True

\* { name, age, x } is accepted as { name, age } is
C14_Witness ==
    /\ built[1] = "recordOf({name: aString, age: aNumber})"
    /\ call.op = "validate"
    /\ call.arg = Obj(<< <<"name", Str("a")>>, <<"age", Num(1)>>, <<"x", Num(1)>> >>)
    /\ Extends(call.arg, Obj(<< <<"name", Str("a")>>, <<"age", Num(1)>> >>))
    /\ call.res = True

PrimitiveNames == {"anAny", "aString", "aNumber", "aBoolean", "aNull", "anUndefined"}
\* v has the type the primitive schema is named after
HasTypeOf(name, v) ==
    CASE name = "anAny" -> TRUE
      [] name = "aString" -> Tag(v) = "string"
      [] name = "aNumber" -> Tag(v) \in {"num", "frac", "nan"}
      [] name = "aBoolean" -> Tag(v) = "boolean"
      [] name = "aNull" -> v = Null
      [] name = "anUndefined" -> v = Undefined

\* C15 as stated: validate of a primitive schema is true exactly for the
\* values of its type (every value for anAny), and encode and decode
\* return their argument.
C15_PrimitivesComplete ==
    built[1] \in PrimitiveNames
        => /\ call.op = "validate" => call.res = Bool(HasTypeOf(built[1], call.arg))
           /\ call.op \in {"encode", "decode"} => call.res = call.arg

\* C15 amended: as stated, except that aString.validate also accepts the
\* String objects that wrap a string (aNumber rejects the Number objects
\* that wrap a number).
C15_PrimitivesCompleteWithStringObjects ==
    built[1] \in PrimitiveNames
        => /\ call.op = "validate"
                => call.res = Bool(\/ HasTypeOf(built[1], call.arg)
                                   \/ built[1] = "aString" /\ Tag(call.arg) = "String")
           /\ call.op \in {"encode", "decode"} => call.res = call.arg

\* aString accepts new String("a"), and aNumber rejects new Number(1)
C15_Witness ==
    /\ built[1] = "aString"
    /\ call.op = "validate"
    /\ call.arg = StringObject("a")
    /\ call.res = True
    /\ Validate(aNumber, NumberObject(1), Before).v = False

MatchingNames == {"matching(/^a+$/)", "matching(/a/)", "matching(/a/g)"}
\* the characters of the string s are all a, and there is at least one
AllAs(s) == Len(s) >= 1 /\ \A i \in 1..Len(s) : SubSeq(s, i, i) = "a"
\* the whole of the string s matches the pattern of the schema
FullTextMatches(name, s) ==
    IF name = "matching(/^a+$/)" THEN AllAs(s) ELSE s = "a"
\* some part of the string s that starts at the 0-based position from or
\* later matches the pattern of the schema
SomePartMatches(name, s, from) ==
    IF name = "matching(/^a+$/)" THEN AllAs(s)
    ELSE \E i \in (from + 1)..Len(s) : SubSeq(s, i, i) = "a"

ValidatedAgain == call.op = "validate" /\ origin.op = "validate"

\* C17 as stated: two calls of validate on the same value return the
\* same result.
C17_ValidateDeterministic == ValidatedAgain => call.res = origin.res

IsContra == built[2].kind = "contra"

\* C18: for c = contra(s, enc, dec), c.validate(d) = s.validate(d) without
\* a call of enc or dec, c.encode(u) = s.encode(enc(u)) and
\* c.decode(r) = dec(s.decode(r)).
C18_ContraLiftsDomain ==
    IsContra =>
        LET c == built[2]
            u == Apply(c.encode, call.arg, Before)
            t == Decode(c.schema, call.arg, Before)
        IN  /\ call.op = "validate"
                => /\ call.res = Validate(c.schema, call.arg, Before).v
                   /\ Count(c.encode.fn, call.calls) = 0
                   /\ Count(c.decode.fn, call.calls) = 0
            /\ call.op = "encode"
                => call.res = IF IsThrow(u.v) THEN u.v ELSE Encode(c.schema, u.v, u.w).v
            /\ call.op = "decode"
                => call.res = IF IsThrow(t.v) THEN t.v ELSE Apply(c.decode, t.v, t.w).v

\* contra(aNumber, negate, negate) validates 1 as aNumber does, without a
\* call of negate
C18_Witness ==
    /\ built[1] = "contra(aNumber, negate, negate)"
    /\ call.op = "validate"
    /\ call.arg = Num(1)
    /\ call.res = True
    /\ call.calls = <<"isNumber">>

IsConstrain == built[2].kind = "constrain"

\* C19: for c = constrain(s, p) and asserting(s, p), c.validate(d) is true
\* iff s.validate(d) is true and p(d) is true, and c.encode(x) = s.encode(x)
\* and c.decode(r) = s.decode(r) for all inputs, without a call of p.
C19_ConstrainNarrowsValidation ==
    IsConstrain =>
        LET c == built[2]
            v == Validate(c.schema, call.arg, Before)
        IN  /\ call.op = "validate"
                => call.res = Bool(/\ v.v = True
                                   /\ Apply(c.predicate, call.arg, v.w).v = True)
            /\ call.op = "encode"
                => /\ call.res = Encode(c.schema, call.arg, Before).v
                   /\ Count(c.predicate.fn, call.calls) = 0
            /\ call.op = "decode"
                => /\ call.res = Decode(c.schema, call.arg, Before).v
                   /\ Count(c.predicate.fn, call.calls) = 0

\* decode returns -1, which the predicate rejects, and never asks it
C19_Witness ==
    /\ built[1] = "constrain(aNumber, positive)"
    /\ call.op = "decode"
    /\ call.arg = Num(0 - 1)
    /\ call.res = Num(0 - 1)
    /\ call.calls = <<>>
    /\ Validate(built[2], call.arg, Before).v = False

ClassOfNames ==
    {"classOf({name: aString, age: aNumber}, newPerson)",
     "LazySchemas.classOf({name: () => aString, age: () => aNumber}, newPerson)"}
\* recordOf(fields) for the fields of the class schema
RecordOfFields ==
    IF built[1] = "classOf({name: aString, age: aNumber}, newPerson)"
    THEN recordOf(<< <<"name", aString>>, <<"age", aNumber>> >>)
    ELSE LazySchemas_recordOf(<< <<"name", "aString">>, <<"age", "aNumber">> >>)

\* C20: classOf(fields, reconstruct).validate equals
\* recordOf(fields).validate, encode(x) equals recordOf(fields).encode(x),
\* and decode(r) equals reconstruct(recordOf(fields).decode(r)), with
\* reconstruct called exactly once, as the last call, when the fields have
\* been decoded, and not at all when decoding them raises.
C20_ClassOfIsContraOfRecordOf ==
    built[1] \in ClassOfNames =>
        LET r == Decode(RecordOfFields, call.arg, Before)
        IN  /\ call.op = "validate"
                => call.res = Validate(RecordOfFields, call.arg, Before).v
            /\ call.op = "encode"
                => /\ call.res = Encode(RecordOfFields, call.arg, Before).v
                   /\ Count("newPerson", call.calls) = 0
            /\ call.op = "decode" /\ IsThrow(r.v)
                => call.res = r.v /\ Count("newPerson", call.calls) = 0
            /\ call.op = "decode" /\ ~IsThrow(r.v)
                => /\ call.res = Inst("Person", << <<"name", Get(r.v, "name")>>,
                                                   <<"age", Get(r.v, "age")>> >>)
                   /\ Count("newPerson", call.calls) = 1
                   /\ call.calls[Len(call.calls)] = "newPerson"

\* { name: "a", age: 1 } decodes to the Person the constructor builds
C20_Witness ==
    /\ built[1] = "classOf({name: aString, age: aNumber}, newPerson)"
    /\ call.op = "decode"
    /\ call.arg = Obj(<< <<"name", Str("a")>>, <<"age", Num(1)>> >>)
    /\ call.res = Inst("Person", << <<"name", Str("a")>>, <<"age", Num(1)>> >>)
    /\ Count("newPerson", call.calls) = 1

InjectingName == "injecting(recordOf({name: aString, age: aNumber}), id, () => newPerson)"
\* the base schema, the projection and the injection of the injecting schema
InjectingBase == recordOf(Person)
InjectingFunctions == {"id", "newPerson"}

\* C21: for i = injecting(base, project, inject), i.encode, i.decode and
\* i.validate return what base.encode, base.decode and base.validate
\* return, after the same calls, none of them a call of project or inject.
C21_InjectingIsTheBase ==
    built[1] = InjectingName /\ call.op \in Ops =>
        LET b == Run(call.op, InjectingBase, call.arg, Before)
        IN  /\ call.res = b.v
            /\ call.calls = b.w.calls
            /\ \A fn \in InjectingFunctions : Count(fn, call.calls) = 0

\* { name: "a", age: 1 } decodes to the record of the base, not to a Person
C21_Witness ==
    /\ built[1] = InjectingName
    /\ call.op = "decode"
    /\ call.arg = Obj(<< <<"name", Str("a")>>, <<"age", Num(1)>> >>)
    /\ call.res = Obj(<< <<"name", Str("a")>>, <<"age", Num(1)>> >>)
    /\ call.res # Apply([fn |-> "newPerson"], call.res, Before).v
    /\ Count("newPerson", call.calls) = 0

IsLazy == built[2].kind = "lazy"

\* C22: lazy(p) holds the producer and no schema it produced; each call of
\* encode, decode or validate on the lazy schema first invokes p, once, and
\* returns what the same operation of the produced schema returns, whatever
\* the calls before it were.
C22_LazyInvokesProducerPerCall ==
    IsLazy =>
        /\ built[2].schema \in {"chain", "numbers"}
        /\ call.op = "none" => call.calls = <<>>
        /\ call.op \in Ops =>
              LET p == built[2].schema
                  r == Run(call.op, Producer(p), call.arg, Before)
              IN  /\ call.res = r.v
                  /\ call.calls = <<p>> \o r.w.calls
                  /\ p = "numbers" => Count(p, call.calls) = 1

\* lazy(() => arrayOf(aNumber)) encodes [1] and then decodes it: the
\* producer runs once in each of the two calls
C22_Witness ==
    /\ built[1] = "lazy(() => arrayOf(aNumber))"
    /\ call.op = "decode" /\ origin.op = "encode"
    /\ call.arg = Arr(<<Num(1)>>)
    /\ call.res = Arr(<<Num(1)>>)
    /\ Count("numbers", origin.calls) = 1
    /\ Count("numbers", call.calls) = 1

IsObjectSchema == built[2].kind = "object"
\* a string-keyed record: a plain object or a class instance
IsRecord(d) == Tag(d) \in {"object", "instance"}
\* every value stored in d is accepted by the value schema
ValuesAccepted(d, w) ==
    \A i \in 1..Len(Props(d)) : Validate(built[2].values, Props(d)[i][2], w).v = True

\* C23: object(valueSchema).validate(d) is true iff d is a string-keyed
\* record (not null, not a primitive, not an array) and valueSchema.validate
\* accepts every value stored in d; encode and decode map valueSchema over
\* the values and keep the key set.
C23_ObjectValidatesRecords ==
    IsObjectSchema =>
        /\ call.op = "validate"
              => call.res = Bool(IsRecord(call.arg) /\ ValuesAccepted(call.arg, Before))
        /\ call.op \in {"encode", "decode"} /\ IsRecord(call.arg) /\ ~IsThrow(call.res)
              => /\ Tag(call.res) = "object"
                 /\ KeySet(Props(call.res)) = KeySet(Props(call.arg))
                 /\ \A k \in KeySet(Props(call.arg)) :
                        Get(call.res, k) = Run(call.op, built[2].values, Get(call.arg, k), Before).v

ArrayKinds == {"arrayOf", "LazySchemas.arrayOf"}
NonEmptyArrayKinds == {"nonEmptyArrayOf", "LazySchemas.nonEmptyArrayOf"}
\* the schema of the elements of the array schema that was built
ElementsSchema ==
    IF built[2].kind \in {"arrayOf", "nonEmptyArrayOf"}
    THEN built[2].elementsSchema
    ELSE Producer(built[2].elementsSchema)
\* d is an array of at least least elements, each accepted by the element schema
ArrayAccepted(d, least) ==
    /\ IsArray(d)
    /\ Len(d[2]) >= least
    /\ \A i \in 1..Len(d[2]) : Validate(ElementsSchema, d[2][i], Before).v = True

\* C24: nonEmptyArrayOf(elem).validate(d), of Schemas and of LazySchemas,
\* is true iff d is an array with at least one element whose elements
\* elem.validate all accepts; arrayOf(elem).validate(d) is true iff d is an
\* array, the empty one included, whose elements elem.validate all accepts.
C24_ArraysValidateElementwise ==
    call.op = "validate" =>
        /\ built[2].kind \in NonEmptyArrayKinds => call.res = Bool(ArrayAccepted(call.arg, 1))
        /\ built[2].kind \in ArrayKinds => call.res = Bool(ArrayAccepted(call.arg, 0))

\* nonEmptyArrayOf(aString) rejects [] and accepts ["a"]; arrayOf accepts []
C24_Witness ==
    /\ built[1] = "nonEmptyArrayOf(aString)"
    /\ call.op = "validate"
    /\ call.arg = Arr(<<>>)
    /\ call.res = False
    /\ Validate(built[2], Arr(<<Str("a")>>), Before).v = True
    /\ Validate(arrayOf(aString), Arr(<<>>), Before).v = True
    /\ Validate(LazySchemas_nonEmptyArrayOf("aString"), Arr(<<>>), Before).v = False

\* the entries the reference record of the mapping stores
StoredEntries(values) == {values[i][2] : i \in 1..Len(values)}

\* C25: mapping(values).validate(v) is true iff v is a string (a String
\* object counted as one) that is a key of the reference record values,
\* and for every v that validate accepted decode(v) returns the entry that
\* values stores under v, an element of the reference set.
C25_MappingValidatesKeys ==
    IsMapping =>
        LET values == built[2].encode.values
        IN  /\ call.op = "validate"
                  => call.res = Bool(/\ Tag(call.arg) \in {"string", "String"}
                                     /\ HasKey(values, call.arg[2]))
            /\ DecodedValidated
                  => /\ HasKey(values, StringOf(call.arg))
                     /\ call.res = Lookup(values, StringOf(call.arg))
                     /\ call.res \in StoredEntries(values)

\* the last call decoded what encode had produced with the right schema of
\* the union from a well-formed value
DecodedRightEncoded ==
    /\ IsUnionOf /\ DecodedEncoded
    /\ WellFormed(built[2], origin.arg)
    /\ origin.branches # <<>> /\ origin.branches[1] = "right"
\* decode took the right side and returned what right.decode returns
DecodedByRight ==
    LET l == Validate(built[2].left, call.arg, Before)
        r == Validate(built[2].right, call.arg, l.w)
    IN  /\ call.branches # <<>> /\ call.branches[1] = "right"
        /\ call.res = Decode(built[2].right, call.arg, r.w).v

IsUnion == IsUnionOf /\ built[2].isLeft.fn = "validate" /\ built[2].isRight.fn = "notValidate"

\* C27 as stated: union(left, right).encode never raises the unreachable
\* error and returns left.encode(x) or right.encode(x); union raises the
\* unreachable error only in decode, on a representation that neither
\* left.validate nor right.validate accepts.
C27_UnionEncodeReachesABranch ==
    IsUnion =>
        LET l == Validate(built[2].left, call.arg, Before)
            r == Validate(built[2].right, call.arg, l.w)
        IN  /\ call.op = "encode"
                => /\ call.res # Unreachable
                   /\ call.res \in {Encode(built[2].left, call.arg, l.w).v,
                                    Encode(built[2].right, call.arg, r.w).v}
            /\ call.res = Unreachable
                => call.op = "decode" /\ l.v = False /\ r.v = False

\* the variables an operation declares for the container it builds
FreshContainers == {"acc", "obj", "res"}

\* C28 as stated: no operation mutates its argument or the schema: every
\* write of encode, decode and validate goes to a container the operation
\* itself has built, and the schema is after the call what it was before.
C28_NoMutation ==
    call.op \in Ops =>
        /\ \A i \in 1..Len(call.writes) : call.writes[i] \in FreshContainers
        /\ lastIndex = call.at

\* C29: whenever recordOf(fields).encode or recordOf(fields).decode, of
\* Schemas or of LazySchemas, returns, it returns a record whose keys are
\* exactly the declared field names: each declared key holds what its field
\* schema returns for the value the input has under that key (undefined
\* when the input lacks the key), and no undeclared key of the input is in
\* the result, so the extra keys validate tolerates do not survive decode.
C29_RecordKeysAreTheDeclaredKeys ==
    IsRecordOf /\ call.op \in {"encode", "decode"} /\ ~IsThrow(call.res)
        => /\ Tag(call.res) = "object"
           /\ KeySet(call.res[2]) = Declared
           /\ Len(call.res[2]) = Len(built[2].structure)
           /\ \A i \in 1..Len(built[2].structure) :
                 Get(call.res, built[2].structure[i][1]) =
                     Run(call.op, FieldSchema(i),
                         Get(call.arg, built[2].structure[i][1]), Before).v

\* { name, age, x } is accepted by validate and decoded to { name, age };
\* {} is decoded to { x: undefined } by recordOf({ x: optional(aNumber) })
C29_Witness ==
    /\ built[1] = "recordOf({name: aString, age: aNumber})"
    /\ DecodedValidated
    /\ call.arg = Obj(<< <<"name", Str("a")>>, <<"age", Num(1)>>, <<"x", Num(1)>> >>)
    /\ call.res = Obj(<< <<"name", Str("a")>>, <<"age", Num(1)>> >>)
    /\ Decode(OptionalX(aNumber), Obj(<<>>), Before).v = Obj(<< <<"x", Undefined>> >>)

\* the constrain of a constrain, asserting, matching, indexing or mapping
IsConstrained == IsConstrain \/ IsIndexing \/ IsMapping
TheConstrain == IF IsConstrain THEN built[2] ELSE built[2].schema
PredicateCalled == Count(TheConstrain.predicate.fn, call.calls) > 0
\* validate called the predicate after schema.validate, and only when
\* schema.validate had returned true
PredicateAfterSchema ==
    IsConstrained /\ call.op = "validate" =>
        LET v == Validate(TheConstrain.schema, call.arg, Before)
        IN  call.calls = v.w.calls \o (IF v.v = True
                                       THEN <<TheConstrain.predicate.fn>>
                                       ELSE <<>>)
\* validate and decode of a union called right.validate only after
\* left.validate had returned false
RightAfterLeft ==
    IsUnionOf =>
        LET l == Validate(built[2].left, call.arg, Before)
            r == Validate(built[2].right, call.arg, l.w)
        IN  /\ call.op = "validate"
                => call.calls = (IF l.v = False THEN r ELSE l).w.calls
            /\ call.op = "decode"
                => call.calls =
                       (IF l.v = True THEN Decode(built[2].left, call.arg, l.w)
                        ELSE IF l.v # False THEN l
                        ELSE IF r.v = True THEN Decode(built[2].right, call.arg, r.w)
                        ELSE r).w.calls

\* C30 as stated: constrain(s, p).validate(d) calls p only after
\* s.validate(d) has returned true, so that the range predicate of
\* indexing is only called on numbers and the predicates of mapping and
\* matching only on strings; validate and decode of unionOf and union call
\* right.validate only after left.validate has returned false.
C30_ShortCircuit ==
    /\ PredicateAfterSchema
    /\ RightAfterLeft
    /\ IsIndexing /\ call.op = "validate" /\ PredicateCalled
           => TypeOf(call.arg) = "number"
    /\ (IsMapping \/ built[1] \in MatchingNames) /\ call.op = "validate" /\ PredicateCalled
           => TypeOf(call.arg) = "string"

\* C30 amended: as C30, but the predicates of mapping and matching are
\* called on what aString accepts: primitive strings and String wrapper
\* objects.
C30_ShortCircuitOnAcceptedValues ==
    /\ PredicateAfterSchema
    /\ RightAfterLeft
    /\ IsIndexing /\ call.op = "validate" /\ PredicateCalled
           => TypeOf(call.arg) = "number"
    /\ (IsMapping \/ built[1] \in MatchingNames) /\ call.op = "validate" /\ PredicateCalled
           => TypeOf(call.arg) = "string" \/ Tag(call.arg) = "String"

\* matching(/a/).validate(new String("a")) calls the expression's test on
\* the wrapper object after aString accepted it; union(aNumber,
\* aString).validate(1) does not call aString.validate
C30_Witness ==
    /\ built[1] = "matching(/a/)"
    /\ call.op = "validate"
    /\ Tag(call.arg) = "String"
    /\ call.calls = <<"isString", "regexTest">>
    /\ Validate(union(aNumber, aString), Num(1), Before).w.calls = <<"isNumber">>
    /\ Validate(union(aNumber, aString), Str("a"), Before).w.calls = <<"isNumber", "isString">>


====
